---- MODULE Spec2Model ----
(***************************************************************************)
(* Home Guard AI (vision_engine.py, main.py): the analysis throttle, the   *)
(* single-flight BackgroundAnalyzer and the frame loops that drive them.   *)
(*                                                                         *)
(* Time is counted in whole seconds.  Every critical section of the        *)
(* analyzer's lock is one atomic step; the code outside the lock (frame    *)
(* encoding, thread start, the remote call) is a step of its own.          *)
(***************************************************************************)
EXTENDS Integers, Sequences, FiniteSets, TLC

\* ------------------------------------------------------------------ bounds
MaxTime == 10
MaxSubmits == 2
MaxCalls == 2
NumFrames == 2
NumPixels == 20
MaxHogCalls == 20
\* The alerts model: the last instant, and the number of alerts raised.
MaxAlertTime == 122
MaxAlerts == 3

\* ------------------------------------------------------- program constants
THROTTLE_SECONDS == 5
\* alerts.py: seconds between two emergency voice calls.
CALL_COOLDOWN == 60
\* MOTION_THRESHOLD = 0.05, as a percentage of the frame's pixels.
MOTION_THRESHOLD == 5
\* The grey-level difference above which cv2.threshold marks a pixel changed.
PIXEL_DIFF_THRESHOLD == 30
MIN_CONTOUR_AREA == 3000
_hog_run_every == 10
\* The HOG confidence 0.3, in hundredths.
HOG_MIN_WEIGHT == 30

\* The BackgroundAnalyzer instances of one session: st.session_state.analyzer
\* and SharedState._analyzer.  They share the module-level throttle state.
Analyzers == {"session", "shared"}

\* The threads that run a frame loop (the Streamlit script loop, the WebRTC
\* recv callback).
Producers == {"script", "recv"}

\* Which analyzer each frame loop drives.  Deployed: as main.py wires them, one
\* loop per instance.  SharedInstance: both threads call the same instance, the
\* general case of the class's contract (submit() from any number of threads).
Deployed == [p \in Producers |-> IF p = "script" THEN "session" ELSE "shared"]
SharedInstance == [p \in Producers |-> "session"]

Frames == 1..NumFrames

\* Python's None, for a result and for an encoding.
None == [kind |-> "none"]

VARIABLES
  now,                  \* time.time(), in seconds
  configured,           \* is_claude_configured(): ANTHROPIC_API_KEY is set
  _last_analysis_time,  \* module global of vision_engine
  _pending,             \* BackgroundAnalyzer._pending, per instance
  _result,              \* BackgroundAnalyzer._result, per instance
  _frame_b64,           \* BackgroundAnalyzer._frame_b64, per instance
  threads,              \* the started background threads that have not finished
  loop,                 \* per producer: position in the frame loop and its locals
  nsub,                 \* history: number of submit() calls that launched a task
  issued,               \* history: the remote calls issued, in order
  prev_frame,           \* the frame loop's previous frame (None before the first)
  _hog_frame_counter,   \* module global of vision_engine
  _last_hog_result,     \* module global of vision_engine: <<found, boxes>>
  decision,             \* the outcome of the frame loop's latest gate evaluation
  hogLog,               \* history: per detect_person_hog call, did the detector run
  hogAge,               \* history: frames since the cached pair was computed
  events_log,           \* the rows log_event was called with, in order
  alerted,              \* the results handed to send_high_threat_alert, in order
  twilio,               \* alerts.py: is_configured(), is_voice_configured()
  _last_call_time,      \* module global of alerts
  alert,                \* per frame loop, its position in send_high_threat_alert
  calls,                \* history: the times at which voice calls were placed
  wa_attempts           \* history: <<alerts raised, WhatsApp sends attempted>>

vars == <<now, configured, _last_analysis_time, _pending, _result, _frame_b64,
          threads, loop, nsub, issued, prev_frame, _hog_frame_counter,
          _last_hog_result, decision, hogLog, hogAge, events_log, alerted,
          twilio, _last_call_time, alert, calls, wa_attempts>>

hogVars == <<_hog_frame_counter, _last_hog_result, hogLog, hogAge>>
gateVars == <<prev_frame, hogVars, decision>>
sinkVars == <<events_log, alerted>>
alertVars == <<twilio, _last_call_time, alert, calls, wa_attempts>>
outVars == <<sinkVars, alertVars>>

analyzerVars == <<_pending, _result, _frame_b64>>
histVars == <<nsub, issued>>

\* ------------------------------------------------------------ pure helpers

\* frame_to_base64(preprocess_frame(frame)): the JPEG/Base64 text of a frame.
frame_to_base64(f) == [kind |-> "jpg", frame |-> f]

\* A result dict produced by task t, labelled with the submission and the frame
\* it was produced for.
ResultDict(t) ==
  [kind |-> "result", tag |-> t.tag, frame |-> t.frame, why |-> "ok"]
\* {"error": str(e)} or {"error": "Anthropic API key not configured."}
ErrorDict(t, why) ==
  [kind |-> "error", tag |-> t.tag, frame |-> t.frame, why |-> why]

IsPresent(r) == r.kind # "none"

\* The reply text of the remote service, message.content[0].text, as a sequence
\* of tokens: "{" and "}", the member lists "L" (threat_level low) and "H"
\* (threat_level high), prose "x" and whitespace " ".
DESC_LIMIT == 200
OkReply == <<"{", "L", "}">>
LongReply == [i \in 1..(DESC_LIMIT + 1) |-> "x"]
Replies ==
  { OkReply,
    <<"{", "H", "}">>,
    <<" ", "{", "H", "}", " ">>,
    <<"x", "{", "L", "}", "x">>,
    <<"x", "{", "x", "}">>,
    <<"{", "H">>,
    <<"}", "x", "{">>,
    <<"{", "}">>,
    <<>>,
    LongReply }

\* str.strip(): leading and trailing whitespace removed.
RECURSIVE lstrip(_)
lstrip(s) == IF s # <<>> /\ Head(s) = " " THEN lstrip(Tail(s)) ELSE s
RECURSIVE rstrip(_)
rstrip(s) ==
  IF s # <<>> /\ s[Len(s)] = " " THEN rstrip(SubSeq(s, 1, Len(s) - 1)) ELSE s
strip(s) == rstrip(lstrip(s))

\* str.find / str.rfind: the 0-based index of the first / last c, or -1.
find(s, c) ==
  IF \E i \in 1..Len(s) : s[i] = c
  THEN (CHOOSE i \in 1..Len(s) : s[i] = c /\ \A j \in 1..(i - 1) : s[j] # c) - 1
  ELSE -1
rfind(s, c) ==
  IF \E i \in 1..Len(s) : s[i] = c
  THEN (CHOOSE i \in 1..Len(s) :
          s[i] = c /\ \A j \in (i + 1)..Len(s) : s[j] # c) - 1
  ELSE -1

\* s[i:j] for 0 <= i <= j, and s[:n].
slice(s, i, j) == SubSeq(s, i + 1, IF j < Len(s) THEN j ELSE Len(s))

\* json.loads(s): the texts it accepts, and what it returns for them ("ok": an
\* object whose threat_level is not high, "high": one whose threat_level is
\* high, "empty": the object {}).  Any other text raises JSONDecodeError.
json_loads_accepts(s) == s \in {<<"{", "L", "}">>, <<"{", "H", "}">>, <<"{", "}">>}
json_loads(s) ==
  IF s = <<"{", "H", "}">> THEN "high"
  ELSE IF s = <<"{", "}">> THEN "empty"
  ELSE "ok"

\* The dict json.loads returned, as the result of task t.
ObjectDict(t, content) == [ResultDict(t) EXCEPT !.why = content]

\* The fallback dict: threat_level "medium", description response_text[:200].
Placeholder(t, response_text) ==
  [kind |-> "result", tag |-> t.tag, frame |-> t.frame, why |-> "placeholder",
   desc |-> slice(response_text, 0, DESC_LIMIT)]

\* analyze_frame, from `response_text = ....strip()` to its return.  The
\* json.loads inside the JSONDecodeError handler is not itself guarded: when it
\* raises, the outer `except Exception` returns the error dict.
parse_response(t, text) ==
  LET response_text == strip(text)
      start == find(response_text, "{")
      end == rfind(response_text, "}") + 1
  IN IF json_loads_accepts(response_text)
     THEN ObjectDict(t, json_loads(response_text))
     ELSE IF start # -1 /\ end > start
          THEN IF json_loads_accepts(slice(response_text, start, end))
               THEN ObjectDict(t, json_loads(slice(response_text, start, end)))
               ELSE ErrorDict(t, "JSONDecodeError")
          ELSE Placeholder(t, response_text)

\* `if bg_result`: None and the empty dict are falsy.
Truthy(r) == IsPresent(r) /\ ~(r.kind = "result" /\ r.why = "empty")

\* `"error" in bg_result`
HasError(r) == r.kind = "error"

\* bg_result.get("threat_level", default)
threat_level(r, default) ==
  IF r.why = "high" THEN "high"
  ELSE IF r.why = "placeholder" THEN "medium"
  ELSE IF r.why = "empty" THEN default
  ELSE "low"

\* Mutant of can_analyze: the cooldown is one second short.
can_analyze_short == (now - _last_analysis_time) >= THROTTLE_SECONDS - 1

\* can_analyze(): (time.time() - _last_analysis_time) >= THROTTLE_SECONDS
can_analyze == (now - _last_analysis_time) >= THROTTLE_SECONDS

\* should_call_claude: the cascade's decision flag.  motion and significant are
\* the outcomes of detect_motion and detect_significant_contours on the frame
\* pair; the HOG result only selects the reason and the boxes of an accepted
\* decision.
should_call_claude(motion, significant) ==
  IF ~motion THEN FALSE
  ELSE IF ~significant THEN FALSE
  ELSE IF ~can_analyze THEN FALSE
  ELSE TRUE

\* ----------------------------------------------------- the gate's stages

\* A preprocessed frame, as its grey levels: the first k pixels have level g,
\* the others are black.
Image(k, g) == [kind |-> "frame",
                px |-> [i \in 1..NumPixels |-> IF i <= k THEN g ELSE 0]]

\* The frames a camera delivers: a black one, frames that differ from it in one
\* or two pixels by just over the pixel threshold, and one that differs in two
\* pixels by exactly the pixel threshold.
Images == {Image(0, 0), Image(1, PIXEL_DIFF_THRESHOLD + 1),
           Image(2, PIXEL_DIFF_THRESHOLD + 1), Image(2, PIXEL_DIFF_THRESHOLD)}

\* What cv2.findContours and cv2.contourArea report on a frame pair: a list of
\* contours with their areas and bounding rectangles.
ContourInputs ==
  {<<>>,
   <<[area |-> MIN_CONTOUR_AREA, box |-> "c1"]>>,
   <<[area |-> MIN_CONTOUR_AREA + 1, box |-> "c2"]>>,
   <<[area |-> MIN_CONTOUR_AREA + 1, box |-> "c2"], [area |-> 500, box |-> "c3"]>>}

\* What _hog.detectMultiScale reports on a frame: boxes with their weights, in
\* hundredths.
HogInputs ==
  {<<>>,
   <<[box |-> "p1", weight |-> HOG_MIN_WEIGHT]>>,
   <<[box |-> "p2", weight |-> HOG_MIN_WEIGHT + 1]>>,
   <<[box |-> "p2", weight |-> HOG_MIN_WEIGHT + 1],
     [box |-> "p1", weight |-> HOG_MIN_WEIGHT]>>}

AbsDiff(x, y) == IF x >= y THEN x - y ELSE y - x

\* np.count_nonzero(thresh) after cv2.absdiff and cv2.threshold(diff, 30, ...).
changed_pixels(prev, curr) ==
  Cardinality({i \in 1..NumPixels :
                 AbsDiff(prev.px[i], curr.px[i]) > PIXEL_DIFF_THRESHOLD})

\* Mutant of detect_motion: a change ratio equal to the threshold counts as
\* motion.
detect_motion_inclusive(prev, curr) ==
  IF prev = None \/ curr = None
  THEN TRUE
  ELSE changed_pixels(prev, curr) * 100 >= MOTION_THRESHOLD * NumPixels

\* Mutant of detect_motion: no bootstrap, an absent previous frame is "no
\* change".
detect_motion_no_bootstrap(prev, curr) ==
  IF prev = None \/ curr = None
  THEN FALSE
  ELSE changed_pixels(prev, curr) * 100 > MOTION_THRESHOLD * NumPixels

\* detect_motion(prev_frame, curr_frame)
detect_motion(prev, curr) ==
  IF prev = None \/ curr = None
  THEN TRUE
  ELSE changed_pixels(prev, curr) * 100 > MOTION_THRESHOLD * NumPixels

\* get_motion_score(prev_frame, curr_frame), as the fraction num/den.
get_motion_score(prev, curr) ==
  IF prev = None \/ curr = None
  THEN [num |-> 1, den |-> 1]
  ELSE [num |-> changed_pixels(prev, curr), den |-> NumPixels]

\* detect_significant_contours(prev_frame, curr_frame): <<found, boxes>>.
detect_significant_contours(prev, curr, contours) ==
  IF prev = None \/ curr = None
  THEN <<TRUE, <<>>>>
  ELSE LET big == SelectSeq(contours, LAMBDA c : c.area > MIN_CONTOUR_AREA)
           significant_boxes == [i \in 1..Len(big) |-> big[i].box]
       IN <<Len(significant_boxes) > 0, significant_boxes>>

\* The stage was not invoked: nothing returned, the globals untouched.
HogNotInvoked ==
  [ret |-> None, counter |-> _hog_frame_counter, cache |-> _last_hog_result,
   counted |-> FALSE, ran |-> FALSE]

\* Mutant of detect_person_hog: no sampling, the detector runs on every call.
detect_person_hog_every_call(frame, dets) ==
  IF frame = None
  THEN [HogNotInvoked EXCEPT !.ret = <<FALSE, <<>>>>]
  ELSE LET confident == SelectSeq(dets, LAMBDA d : d.weight > HOG_MIN_WEIGHT)
           confident_boxes == [i \in 1..Len(confident) |-> confident[i].box]
           r == <<Len(confident_boxes) > 0, confident_boxes>>
       IN [ret |-> r, counter |-> _hog_frame_counter + 1, cache |-> r,
           counted |-> TRUE, ran |-> TRUE]

\* Mutant of detect_person_hog: a box of confidence exactly 0.3 is kept.
detect_person_hog_inclusive(frame, dets) ==
  IF frame = None
  THEN [HogNotInvoked EXCEPT !.ret = <<FALSE, <<>>>>]
  ELSE IF (_hog_frame_counter + 1) % _hog_run_every # 0
  THEN [ret |-> _last_hog_result, counter |-> _hog_frame_counter + 1,
        cache |-> _last_hog_result, counted |-> TRUE, ran |-> FALSE]
  ELSE LET confident == SelectSeq(dets, LAMBDA d : d.weight >= HOG_MIN_WEIGHT)
           confident_boxes == [i \in 1..Len(confident) |-> confident[i].box]
           r == <<Len(confident_boxes) > 0, confident_boxes>>
       IN [ret |-> r, counter |-> _hog_frame_counter + 1, cache |-> r,
           counted |-> TRUE, ran |-> TRUE]

\* Mutant of detect_person_hog: the call counter is advanced before the null
\* check.
detect_person_hog_counts_null(frame, dets) ==
  IF frame = None
  THEN [HogNotInvoked EXCEPT !.ret = <<FALSE, <<>>>>,
                             !.counter = _hog_frame_counter + 1]
  ELSE IF (_hog_frame_counter + 1) % _hog_run_every # 0
  THEN [ret |-> _last_hog_result, counter |-> _hog_frame_counter + 1,
        cache |-> _last_hog_result, counted |-> TRUE, ran |-> FALSE]
  ELSE LET confident == SelectSeq(dets, LAMBDA d : d.weight > HOG_MIN_WEIGHT)
           confident_boxes == [i \in 1..Len(confident) |-> confident[i].box]
           r == <<Len(confident_boxes) > 0, confident_boxes>>
       IN [ret |-> r, counter |-> _hog_frame_counter + 1, cache |-> r,
           counted |-> TRUE, ran |-> TRUE]

\* detect_person_hog(frame): the pair it returns and the values it leaves in
\* _hog_frame_counter and _last_hog_result.
detect_person_hog(frame, dets) ==
  IF frame = None
  THEN [HogNotInvoked EXCEPT !.ret = <<FALSE, <<>>>>]
  ELSE IF (_hog_frame_counter + 1) % _hog_run_every # 0
  THEN [ret |-> _last_hog_result, counter |-> _hog_frame_counter + 1,
        cache |-> _last_hog_result, counted |-> TRUE, ran |-> FALSE]
  ELSE LET confident == SelectSeq(dets, LAMBDA d : d.weight > HOG_MIN_WEIGHT)
           confident_boxes == [i \in 1..Len(confident) |-> confident[i].box]
           r == <<Len(confident_boxes) > 0, confident_boxes>>
       IN [ret |-> r, counter |-> _hog_frame_counter + 1, cache |-> r,
           counted |-> TRUE, ran |-> TRUE]

\* Mutant of cascade: the shape detector runs before the motion check.
cascade_hog_first(prev, curr, contours, dets) ==
  LET h == detect_person_hog(curr, dets) IN
  IF ~detect_motion(prev, curr)
  THEN [should |-> FALSE, reason |-> "No motion", boxes |-> <<>>,
        trace |-> <<"hog", "motion">>, sig |-> None, hog |-> h]
  ELSE LET sig == detect_significant_contours(prev, curr, contours) IN
    IF ~sig[1]
    THEN [should |-> FALSE, reason |-> "Motion too small (shadow/noise)",
          boxes |-> <<>>, trace |-> <<"hog", "motion", "contours">>,
          sig |-> sig, hog |-> h]
    ELSE IF ~can_analyze
      THEN [should |-> FALSE, reason |-> "Throttled (cooling down)",
            boxes |-> sig[2],
            trace |-> <<"hog", "motion", "contours", "throttle">>,
            sig |-> sig, hog |-> h]
      ELSE [should |-> TRUE,
            reason |-> IF h.ret[1] THEN "Person detected (HOG)"
                                   ELSE "Large movement detected",
            boxes |-> IF h.ret[2] # <<>> THEN h.ret[2] ELSE sig[2],
            trace |-> <<"hog", "motion", "contours", "throttle">>,
            sig |-> sig, hog |-> h]

\* Mutant of cascade: the throttle is consulted before the significance
\* filter.
cascade_throttle_first(prev, curr, contours, dets) ==
  IF ~detect_motion(prev, curr)
  THEN [should |-> FALSE, reason |-> "No motion", boxes |-> <<>>,
        trace |-> <<"motion">>, sig |-> None, hog |-> HogNotInvoked]
  ELSE LET sig == detect_significant_contours(prev, curr, contours) IN
    IF ~can_analyze
    THEN [should |-> FALSE, reason |-> "Throttled (cooling down)",
          boxes |-> sig[2], trace |-> <<"motion", "throttle", "contours">>,
          sig |-> sig, hog |-> HogNotInvoked]
    ELSE IF ~sig[1]
    THEN [should |-> FALSE, reason |-> "Motion too small (shadow/noise)",
          boxes |-> <<>>, trace |-> <<"motion", "throttle", "contours">>,
          sig |-> sig, hog |-> HogNotInvoked]
    ELSE LET h == detect_person_hog(curr, dets) IN
         [should |-> TRUE,
          reason |-> IF h.ret[1] THEN "Person detected (HOG)"
                                 ELSE "Large movement detected",
          boxes |-> IF h.ret[2] # <<>> THEN h.ret[2] ELSE sig[2],
          trace |-> <<"motion", "throttle", "contours", "hog">>,
          sig |-> sig, hog |-> h]

\* Mutant of cascade: a throttled decision carries the combined boxes of an
\* accepted one.
cascade_throttled_hog_boxes(prev, curr, contours, dets) ==
  IF ~detect_motion(prev, curr)
  THEN [should |-> FALSE, reason |-> "No motion", boxes |-> <<>>,
        trace |-> <<"motion">>, sig |-> None, hog |-> HogNotInvoked]
  ELSE LET sig == detect_significant_contours(prev, curr, contours) IN
    IF ~sig[1]
    THEN [should |-> FALSE, reason |-> "Motion too small (shadow/noise)",
          boxes |-> <<>>, trace |-> <<"motion", "contours">>, sig |-> sig,
          hog |-> HogNotInvoked]
    ELSE LET h == detect_person_hog(curr, dets) IN
      IF ~can_analyze
      THEN [should |-> FALSE, reason |-> "Throttled (cooling down)",
            boxes |-> IF h.ret[2] # <<>> THEN h.ret[2] ELSE sig[2],
            trace |-> <<"motion", "contours", "hog", "throttle">>,
            sig |-> sig, hog |-> h]
      ELSE [should |-> TRUE,
            reason |-> IF h.ret[1] THEN "Person detected (HOG)"
                                   ELSE "Large movement detected",
            boxes |-> IF h.ret[2] # <<>> THEN h.ret[2] ELSE sig[2],
            trace |-> <<"motion", "contours", "hog", "throttle">>,
            sig |-> sig, hog |-> h]

\* Mutant of cascade: the throttle is consulted before the shape detector, so
\* a throttled evaluation does not invoke it.
cascade_throttle_before_hog(prev, curr, contours, dets) ==
  IF ~detect_motion(prev, curr)
  THEN [should |-> FALSE, reason |-> "No motion", boxes |-> <<>>,
        trace |-> <<"motion">>, sig |-> None, hog |-> HogNotInvoked]
  ELSE LET sig == detect_significant_contours(prev, curr, contours) IN
    IF ~sig[1]
    THEN [should |-> FALSE, reason |-> "Motion too small (shadow/noise)",
          boxes |-> <<>>, trace |-> <<"motion", "contours">>, sig |-> sig,
          hog |-> HogNotInvoked]
    ELSE IF ~can_analyze
      THEN [should |-> FALSE, reason |-> "Throttled (cooling down)",
            boxes |-> sig[2], trace |-> <<"motion", "contours", "throttle">>,
            sig |-> sig, hog |-> HogNotInvoked]
      ELSE LET h == detect_person_hog(curr, dets) IN
           [should |-> TRUE,
            reason |-> IF h.ret[1] THEN "Person detected (HOG)"
                                   ELSE "Large movement detected",
            boxes |-> IF h.ret[2] # <<>> THEN h.ret[2] ELSE sig[2],
            trace |-> <<"motion", "contours", "throttle", "hog">>,
            sig |-> sig, hog |-> h]

\* Mutant of cascade: an accepted decision always carries the contour boxes.
cascade_contour_boxes_only(prev, curr, contours, dets) ==
  IF ~detect_motion(prev, curr)
  THEN [should |-> FALSE, reason |-> "No motion", boxes |-> <<>>,
        trace |-> <<"motion">>, sig |-> None, hog |-> HogNotInvoked]
  ELSE LET sig == detect_significant_contours(prev, curr, contours) IN
    IF ~sig[1]
    THEN [should |-> FALSE, reason |-> "Motion too small (shadow/noise)",
          boxes |-> <<>>, trace |-> <<"motion", "contours">>, sig |-> sig,
          hog |-> HogNotInvoked]
    ELSE LET h == detect_person_hog(curr, dets) IN
      IF ~can_analyze
      THEN [should |-> FALSE, reason |-> "Throttled (cooling down)",
            boxes |-> sig[2],
            trace |-> <<"motion", "contours", "hog", "throttle">>,
            sig |-> sig, hog |-> h]
      ELSE [should |-> TRUE,
            reason |-> IF h.ret[1] THEN "Person detected (HOG)"
                                   ELSE "Large movement detected",
            boxes |-> sig[2],
            trace |-> <<"motion", "contours", "hog", "throttle">>,
            sig |-> sig, hog |-> h]

\* should_call_claude(prev_frame, curr_frame) in full: the returned triple, the
\* stages it invoked in order, and what the stages returned.
cascade(prev, curr, contours, dets) ==
  IF ~detect_motion(prev, curr)
  THEN [should |-> FALSE, reason |-> "No motion", boxes |-> <<>>,
        trace |-> <<"motion">>, sig |-> None, hog |-> HogNotInvoked]
  ELSE LET sig == detect_significant_contours(prev, curr, contours) IN
    IF ~sig[1]
    THEN [should |-> FALSE, reason |-> "Motion too small (shadow/noise)",
          boxes |-> <<>>, trace |-> <<"motion", "contours">>, sig |-> sig,
          hog |-> HogNotInvoked]
    ELSE LET h == detect_person_hog(curr, dets) IN
      IF ~can_analyze
      THEN [should |-> FALSE, reason |-> "Throttled (cooling down)",
            boxes |-> sig[2],
            trace |-> <<"motion", "contours", "hog", "throttle">>,
            sig |-> sig, hog |-> h]
      ELSE [should |-> TRUE,
            reason |-> IF h.ret[1] THEN "Person detected (HOG)"
                                   ELSE "Large movement detected",
            boxes |-> IF h.ret[2] # <<>> THEN h.ret[2] ELSE sig[2],
            trace |-> <<"motion", "contours", "hog", "throttle">>,
            sig |-> sig, hog |-> h]

\* The frame loop's locals before its first gate evaluation.
NoDecision ==
  [motion |-> FALSE, score |-> [num |-> 0, den |-> 1], sig |-> None,
   person |-> None, should |-> FALSE, reason |-> "", boxes |-> <<>>,
   trace |-> <<>>, bootstrap |-> FALSE]

IdleLoop == [pc |-> "gate", an |-> "session", sa |-> FALSE, frame |-> 0,
             mock |-> FALSE, tag |-> 0]

TasksOf(a) == {t \in threads : t.an = a}

\* A frame loop that is not inside send_high_threat_alert.
IdleAlert == [pc |-> "idle", since |-> 0]

\* Mutant of InitWith: the last-accepted time starts at the current time.
InitWith_marked(t0, tw) ==
  /\ now = t0
  /\ configured \in BOOLEAN
  /\ _last_analysis_time = t0
  /\ _pending = [a \in Analyzers |-> FALSE]
  /\ _result = [a \in Analyzers |-> None]
  /\ _frame_b64 = [a \in Analyzers |-> None]
  /\ threads = {}
  /\ loop = [p \in Producers |-> IdleLoop]
  /\ nsub = 0
  /\ issued = <<>>
  /\ prev_frame = None
  /\ _hog_frame_counter = 0
  /\ _last_hog_result = <<FALSE, <<>>>>
  /\ decision = NoDecision
  /\ hogLog = <<>>
  /\ hogAge = -1
  /\ events_log = <<>>
  /\ alerted = <<>>
  /\ twilio = tw
  /\ _last_call_time = 0
  /\ alert = [p \in Producers |-> IdleAlert]
  /\ calls = <<>>
  /\ wa_attempts = <<0, 0>>

\* --------------------------------------------------------------------- Init
InitWith(t0, tw) ==
  /\ now = t0
  /\ configured \in BOOLEAN
  /\ _last_analysis_time = 0
  /\ _pending = [a \in Analyzers |-> FALSE]
  /\ _result = [a \in Analyzers |-> None]
  /\ _frame_b64 = [a \in Analyzers |-> None]
  /\ threads = {}
  /\ loop = [p \in Producers |-> IdleLoop]
  /\ nsub = 0
  /\ issued = <<>>
  /\ prev_frame = None
  /\ _hog_frame_counter = 0
  /\ _last_hog_result = <<FALSE, <<>>>>
  /\ decision = NoDecision
  /\ hogLog = <<>>
  /\ hogAge = -1
  /\ events_log = <<>>
  /\ alerted = <<>>
  /\ twilio = tw
  /\ _last_call_time = 0
  /\ alert = [p \in Producers |-> IdleAlert]
  /\ calls = <<>>
  /\ wa_attempts = <<0, 0>>

\* The process once it has run for THROTTLE_SECONDS (time.time() is far larger),
\* without Twilio credentials.
Init == InitWith(THROTTLE_SECONDS, [wa |-> FALSE, voice |-> FALSE])

\* ------------------------------------------------------------------ actions

\* The wall clock advances.
Tick ==
  /\ now < MaxTime
  /\ now' = now + 1
  /\ UNCHANGED <<configured, _last_analysis_time, analyzerVars, threads, loop,
                 histVars>>
  /\ UNCHANGED gateVars
  /\ UNCHANGED outVars

\* Mutant of GateEval: the gate marks the throttle when it accepts a frame.
GateEval_marks(p, a, motion, significant) ==
  /\ loop[p].pc = "gate"
  /\ loop' = [loop EXCEPT ![p] = [IdleLoop EXCEPT !.pc = "poll", !.an = a,
                                     !.sa = should_call_claude(motion, significant)]]
  /\ _last_analysis_time' = IF should_call_claude(motion, significant)
                             THEN now ELSE _last_analysis_time
  /\ UNCHANGED <<now, configured, analyzerVars, threads, histVars>>
  /\ UNCHANGED gateVars
  /\ UNCHANGED outVars

\* Frame loop, gate: should_call_claude(prev_frame, processed) on the
\* producer's analyzer.
GateEval(p, a, motion, significant) ==
  /\ loop[p].pc = "gate"
  /\ loop' = [loop EXCEPT ![p] = [IdleLoop EXCEPT !.pc = "poll", !.an = a,
                                     !.sa = should_call_claude(motion, significant)]]
  /\ UNCHANGED <<now, configured, _last_analysis_time, analyzerVars, threads,
                 histVars>>
  /\ UNCHANGED gateVars
  /\ UNCHANGED outVars

\* Mutant of get_result: the poll waits for the in-flight task to finish.
get_result_blocking(p) ==
  LET a == loop[p].an IN
  /\ loop[p].pc = "poll"
  /\ ~_pending[a]
  /\ IF IsPresent(_result[a])
     THEN /\ _result' = [_result EXCEPT ![a] = None]
          /\ _frame_b64' = [_frame_b64 EXCEPT ![a] = None]
     ELSE UNCHANGED <<_result, _frame_b64>>
  /\ loop' = [loop EXCEPT ![p].pc = "busy"]
  /\ UNCHANGED <<now, configured, _last_analysis_time, _pending, threads,
                 histVars>>
  /\ UNCHANGED gateVars
  /\ UNCHANGED outVars

\* Mutant of get_result: the poll clears the result and keeps the encoding.
get_result_keeps_b64(p) ==
  LET a == loop[p].an IN
  /\ loop[p].pc = "poll"
  /\ IF IsPresent(_result[a])
     THEN /\ _result' = [_result EXCEPT ![a] = None]
          /\ UNCHANGED _frame_b64
     ELSE UNCHANGED <<_result, _frame_b64>>
  /\ loop' = [loop EXCEPT ![p].pc = "busy"]
  /\ UNCHANGED <<now, configured, _last_analysis_time, _pending, threads,
                 histVars>>
  /\ UNCHANGED gateVars
  /\ UNCHANGED outVars

\* BackgroundAnalyzer.get_result(), called by the frame loop.
get_result(p) ==
  LET a == loop[p].an IN
  /\ loop[p].pc = "poll"
  /\ IF IsPresent(_result[a])
     THEN /\ _result' = [_result EXCEPT ![a] = None]
          /\ _frame_b64' = [_frame_b64 EXCEPT ![a] = None]
     ELSE UNCHANGED <<_result, _frame_b64>>
  /\ loop' = [loop EXCEPT ![p].pc = "busy"]
  /\ UNCHANGED <<now, configured, _last_analysis_time, _pending, threads,
                 histVars>>
  /\ UNCHANGED gateVars
  /\ UNCHANGED outVars

\* Frame loop: `if should_analyze and not analyzer.is_busy:` then submit, else
\* the iteration ends.
is_busy(p) ==
  LET a == loop[p].an IN
  /\ loop[p].pc = "busy"
  /\ loop' = [loop EXCEPT ![p] = IF loop[p].sa /\ ~_pending[a]
                                  THEN [@ EXCEPT !.pc = "submit"]
                                  ELSE IdleLoop]
  /\ UNCHANGED <<now, configured, _last_analysis_time, analyzerVars, threads,
                 histVars>>
  /\ UNCHANGED gateVars
  /\ UNCHANGED outVars

\* Mutant of submit: the `if self._pending: return` check is missing.
submit_unguarded(p, f, m) ==
  LET a == loop[p].an IN
  /\ loop[p].pc = "submit"
  /\ nsub < MaxSubmits
  /\ _pending' = [_pending EXCEPT ![a] = TRUE]
  /\ _result' = [_result EXCEPT ![a] = None]
  /\ nsub' = nsub + 1
  /\ loop' = [loop EXCEPT ![p] = [@ EXCEPT !.pc = "encode", !.frame = f,
                                     !.mock = m, !.tag = nsub + 1]]
  /\ UNCHANGED <<now, configured, _last_analysis_time, _frame_b64, threads,
                 issued>>
  /\ UNCHANGED gateVars
  /\ UNCHANGED outVars

\* Mutant of submit: the frame is encoded into _frame_b64 before the pending
\* check, so a dropped call overwrites the encoding.
submit_encodes_first(p, f, m) ==
  LET a == loop[p].an IN
  /\ loop[p].pc = "submit"
  /\ _frame_b64' = [_frame_b64 EXCEPT ![a] = frame_to_base64(f)]
  /\ IF _pending[a]
     THEN /\ loop' = [loop EXCEPT ![p] = IdleLoop]
          /\ UNCHANGED <<_pending, _result, nsub>>
     ELSE /\ nsub < MaxSubmits
          /\ _pending' = [_pending EXCEPT ![a] = TRUE]
          /\ _result' = [_result EXCEPT ![a] = None]
          /\ nsub' = nsub + 1
          /\ loop' = [loop EXCEPT ![p] = [@ EXCEPT !.pc = "encode", !.frame = f,
                                             !.mock = m, !.tag = nsub + 1]]
  /\ UNCHANGED <<now, configured, _last_analysis_time, threads,
                 issued>>
  /\ UNCHANGED gateVars
  /\ UNCHANGED outVars

\* Mutant of submit: an accepted submit leaves a stored result in place.
submit_keeps_result(p, f, m) ==
  LET a == loop[p].an IN
  /\ loop[p].pc = "submit"
  /\ IF _pending[a]
     THEN /\ loop' = [loop EXCEPT ![p] = IdleLoop]
          /\ UNCHANGED <<_pending, _result, nsub>>
     ELSE /\ nsub < MaxSubmits
          /\ _pending' = [_pending EXCEPT ![a] = TRUE]
          /\ _result' = _result
          /\ nsub' = nsub + 1
          /\ loop' = [loop EXCEPT ![p] = [@ EXCEPT !.pc = "encode", !.frame = f,
                                             !.mock = m, !.tag = nsub + 1]]
  /\ UNCHANGED <<now, configured, _last_analysis_time, _frame_b64, threads,
                 issued>>
  /\ UNCHANGED gateVars
  /\ UNCHANGED outVars

\* BackgroundAnalyzer.submit(frame, use_mock): the critical section.
submit(p, f, m) ==
  LET a == loop[p].an IN
  /\ loop[p].pc = "submit"
  /\ IF _pending[a]
     THEN /\ loop' = [loop EXCEPT ![p] = IdleLoop]
          /\ UNCHANGED <<_pending, _result, nsub>>
     ELSE /\ nsub < MaxSubmits
          /\ _pending' = [_pending EXCEPT ![a] = TRUE]
          /\ _result' = [_result EXCEPT ![a] = None]
          /\ nsub' = nsub + 1
          /\ loop' = [loop EXCEPT ![p] = [@ EXCEPT !.pc = "encode", !.frame = f,
                                             !.mock = m, !.tag = nsub + 1]]
  /\ UNCHANGED <<now, configured, _last_analysis_time, _frame_b64, threads,
                 issued>>
  /\ UNCHANGED gateVars
  /\ UNCHANGED outVars

\* submit(), after the lock is released: the frame is encoded into _frame_b64
\* and the thread that runs _run is started.
submit_start(p) ==
  LET a == loop[p].an IN
  /\ loop[p].pc = "encode"
  /\ _frame_b64' = [_frame_b64 EXCEPT ![a] = frame_to_base64(loop[p].frame)]
  /\ threads' = threads \cup {[an |-> a, tag |-> loop[p].tag, frame |-> loop[p].frame,
                               mock |-> loop[p].mock, pc |-> "run", via |-> "none",
                               ret |-> None, call |-> 0]}
  /\ loop' = [loop EXCEPT ![p] = IdleLoop]
  /\ UNCHANGED <<now, configured, _last_analysis_time, _pending, _result, histVars>>
  /\ UNCHANGED gateVars
  /\ UNCHANGED outVars

\* Mutant of run_mock: the task analyses the frame loop's current frame, not
\* the one it was handed at submit().
run_mock_reads_loop_frame(t, raises) ==
  /\ t.pc = "run" /\ t.mock
  /\ threads' = (threads \ {t}) \cup
       {[t EXCEPT !.pc = "store",
                  !.frame = loop["script"].frame,
                  !.via = IF raises THEN "mock_exception" ELSE "mock",
                  !.ret = IF raises
                          THEN ErrorDict([t EXCEPT !.frame = loop["script"].frame],
                                         "mock_exception")
                          ELSE ResultDict([t EXCEPT !.frame = loop["script"].frame])]}
  /\ UNCHANGED <<now, configured, _last_analysis_time, analyzerVars, loop, histVars>>
  /\ UNCHANGED gateVars
  /\ UNCHANGED outVars

\* Mutant of run_mock: the mock analysis marks the throttle as analyze_frame
\* does after a reply.
run_mock_marks(t, raises) ==
  /\ t.pc = "run" /\ t.mock
  /\ _last_analysis_time' = now
  /\ threads' = (threads \ {t}) \cup
       {[t EXCEPT !.pc = "store",
                  !.via = IF raises THEN "mock_exception" ELSE "mock",
                  !.ret = IF raises THEN ErrorDict(t, "mock_exception")
                                   ELSE ResultDict(t)]}
  /\ UNCHANGED <<now, configured, analyzerVars, loop, histVars>>
  /\ UNCHANGED gateVars
  /\ UNCHANGED outVars

\* _run with use_mock: analyze_frame_mock returns a dict, or raises and _run's
\* handler wraps the exception.
run_mock(t, raises) ==
  /\ t.pc = "run" /\ t.mock
  /\ threads' = (threads \ {t}) \cup
       {[t EXCEPT !.pc = "store",
                  !.via = IF raises THEN "mock_exception" ELSE "mock",
                  !.ret = IF raises THEN ErrorDict(t, "mock_exception")
                                   ELSE ResultDict(t)]}
  /\ UNCHANGED <<now, configured, _last_analysis_time, analyzerVars, loop, histVars>>
  /\ UNCHANGED gateVars
  /\ UNCHANGED outVars

\* Mutant of analyze_frame: an unconfigured key returns None, as the docstring
\* says, instead of the error dict.
analyze_frame_unconfigured_none(t) ==
  /\ t.pc = "run" /\ ~t.mock
  /\ IF ~configured
     THEN /\ threads' = (threads \ {t}) \cup
               {[t EXCEPT !.pc = "store", !.via = "unconfigured", !.ret = None]}
          /\ UNCHANGED issued
     ELSE IF ~can_analyze
     THEN /\ threads' = (threads \ {t}) \cup
               {[t EXCEPT !.pc = "store", !.via = "throttled", !.ret = None]}
          /\ UNCHANGED issued
     ELSE /\ Len(issued) < MaxCalls
          /\ issued' = Append(issued, [t |-> now, raised |-> FALSE])
          /\ threads' = (threads \ {t}) \cup
               {[t EXCEPT !.pc = "wait", !.call = Len(issued) + 1]}
  /\ UNCHANGED <<now, configured, _last_analysis_time, analyzerVars, loop,
                 nsub>>
  /\ UNCHANGED gateVars
  /\ UNCHANGED outVars

\* _run without use_mock: analyze_frame up to the remote call.
analyze_frame(t) ==
  /\ t.pc = "run" /\ ~t.mock
  /\ IF ~configured
     THEN /\ threads' = (threads \ {t}) \cup
               {[t EXCEPT !.pc = "store", !.via = "unconfigured",
                          !.ret = ErrorDict(t, "unconfigured")]}
          /\ UNCHANGED issued
     ELSE IF ~can_analyze
     THEN /\ threads' = (threads \ {t}) \cup
               {[t EXCEPT !.pc = "store", !.via = "throttled", !.ret = None]}
          /\ UNCHANGED issued
     ELSE /\ Len(issued) < MaxCalls
          /\ issued' = Append(issued, [t |-> now, raised |-> FALSE])
          /\ threads' = (threads \ {t}) \cup
               {[t EXCEPT !.pc = "wait", !.call = Len(issued) + 1]}
  /\ UNCHANGED <<now, configured, _last_analysis_time, analyzerVars, loop,
                 nsub>>
  /\ UNCHANGED gateVars
  /\ UNCHANGED outVars

\* client.messages.create returns text: the throttle is marked and the reply
\* parsed.
analyze_frame_reply(t, text) ==
  /\ t.pc = "wait"
  /\ _last_analysis_time' = now
  /\ threads' = (threads \ {t}) \cup
       {[t EXCEPT !.pc = "store", !.via = "reply",
                  !.ret = parse_response(t, text)]}
  /\ UNCHANGED <<now, configured, analyzerVars, loop, histVars>>
  /\ UNCHANGED gateVars
  /\ UNCHANGED outVars

\* Mutant of analyze_frame_except: the handler returns None instead of the
\* error dict.
analyze_frame_except_none(t) ==
  /\ t.pc = "wait"
  /\ threads' = (threads \ {t}) \cup
       {[t EXCEPT !.pc = "store", !.via = "exception", !.ret = None]}
  /\ issued' = [issued EXCEPT ![t.call].raised = TRUE]
  /\ UNCHANGED <<now, configured, _last_analysis_time, analyzerVars, loop,
                 nsub>>
  /\ UNCHANGED gateVars
  /\ UNCHANGED outVars

\* client.messages.create raises (network error, timeout): `except Exception`.
analyze_frame_except(t) ==
  /\ t.pc = "wait"
  /\ threads' = (threads \ {t}) \cup
       {[t EXCEPT !.pc = "store", !.via = "exception",
                  !.ret = ErrorDict(t, "exception")]}
  /\ issued' = [issued EXCEPT ![t.call].raised = TRUE]
  /\ UNCHANGED <<now, configured, _last_analysis_time, analyzerVars, loop,
                 nsub>>
  /\ UNCHANGED gateVars
  /\ UNCHANGED outVars

\* Mutant of run_store: the task stores its outcome and leaves _pending set.
run_store_keeps_pending(t) ==
  /\ t.pc = "store"
  /\ _result' = [_result EXCEPT ![t.an] = t.ret]
  /\ threads' = threads \ {t}
  /\ UNCHANGED <<now, configured, _last_analysis_time, _pending, _frame_b64,
                 loop, histVars>>
  /\ UNCHANGED gateVars
  /\ UNCHANGED outVars

\* _run: `with self._lock: self._result = result; self._pending = False`, and
\* the thread ends.
run_store(t) ==
  /\ t.pc = "store"
  /\ _result' = [_result EXCEPT ![t.an] = t.ret]
  /\ _pending' = [_pending EXCEPT ![t.an] = FALSE]
  /\ threads' = threads \ {t}
  /\ UNCHANGED <<now, configured, _last_analysis_time, _frame_b64, loop,
                 histVars>>
  /\ UNCHANGED gateVars
  /\ UNCHANGED outVars

Step(wiring) ==
  \/ Tick
  \/ \E p \in Producers, motion \in BOOLEAN, significant \in BOOLEAN :
       GateEval(p, wiring[p], motion, significant)
  \/ \E p \in Producers : get_result(p)
  \/ \E p \in Producers : is_busy(p)
  \/ \E p \in Producers, f \in Frames, m \in BOOLEAN : submit(p, f, m)
  \/ \E p \in Producers : submit_start(p)
  \/ \E t \in threads, raises \in BOOLEAN : run_mock(t, raises)
  \/ \E t \in threads : analyze_frame(t)
  \/ \E t \in threads : analyze_frame_reply(t, OkReply)
  \/ \E t \in threads : analyze_frame_except(t)
  \/ \E t \in threads : run_store(t)

\* ------------------------------------------------------ mock analyses only

\* One analyzer called by both frame loops, every submit() with use_mock=True
\* (the sidebar's mock mode, main.py:521).
NextMock ==
  \/ Tick
  \/ \E p \in Producers, motion \in BOOLEAN, significant \in BOOLEAN :
       GateEval(p, SharedInstance[p], motion, significant)
  \/ \E p \in Producers : get_result(p)
  \/ \E p \in Producers : is_busy(p)
  \/ \E p \in Producers, f \in Frames : submit(p, f, TRUE)
  \/ \E p \in Producers : submit_start(p)
  \/ \E t \in threads, raises \in BOOLEAN : run_mock(t, raises)
  \/ \E t \in threads : run_store(t)

SpecMock == Init /\ [][NextMock]_vars

\* ----------------------------------------------- a failure inside submit()

\* submit() after its critical section, when a statement raises:
\* preprocess_frame or frame_to_base64 (stage "encode", before _frame_b64 is
\* assigned) or threading.Thread(...).start() (stage "thread", after it).
\* Nothing in submit catches it: the exception leaves submit and the frame
\* loop's iteration, no thread exists, and _pending is not touched.
submit_raises(p, stage) ==
  LET a == loop[p].an IN
  /\ loop[p].pc = "encode"
  /\ _frame_b64' = IF stage = "thread"
                   THEN [_frame_b64 EXCEPT ![a] = frame_to_base64(loop[p].frame)]
                   ELSE _frame_b64
  /\ loop' = [loop EXCEPT ![p] = IdleLoop]
  /\ UNCHANGED <<now, configured, _last_analysis_time, _pending, _result, threads,
                 histVars>>
  /\ UNCHANGED gateVars
  /\ UNCHANGED outVars

\* One analyzer called by both frame loops, where submit() may fail.
NextSubmitFails ==
  \/ Step(SharedInstance)
  \/ \E p \in Producers, stage \in {"encode", "thread"} : submit_raises(p, stage)

SpecSubmitFails == Init /\ [][NextSubmitFails]_vars

\* ------------------------------------------------------ the gate, in full

\* Mutant of frame_step: an accepting gate evaluation marks the throttle.
frame_step_marks(curr, contours, dets) ==
  \E g \in {cascade(prev_frame, curr, contours, dets)} :
  /\ _hog_frame_counter < MaxHogCalls
  /\ decision' = [motion |-> detect_motion(prev_frame, curr),
                  score |-> get_motion_score(prev_frame, curr),
                  sig |-> g.sig, person |-> g.hog.ret, should |-> g.should,
                  reason |-> g.reason, boxes |-> g.boxes, trace |-> g.trace,
                  bootstrap |-> (prev_frame = None)]
  /\ _hog_frame_counter' = g.hog.counter
  /\ _last_hog_result' = g.hog.cache
  /\ hogLog' = IF g.hog.counted THEN Append(hogLog, g.hog.ran) ELSE hogLog
  /\ hogAge' = IF g.hog.ran THEN 0
               ELSE IF hogAge = -1 \/ hogAge = _hog_run_every THEN hogAge
               ELSE hogAge + 1
  /\ prev_frame' = curr
  /\ _last_analysis_time' = IF g.should THEN now ELSE _last_analysis_time
  /\ UNCHANGED <<now, configured, analyzerVars, threads, loop, histVars>>
  /\ UNCHANGED outVars

\* One iteration of a frame loop on frame curr, as far as the gate goes:
\* detect_motion, get_motion_score, should_call_claude, and at the end of the
\* iteration prev_frame = processed.copy().  hogAge counts the frames since the
\* expensive detector computed the cached pair (-1: it never did), up to
\* _hog_run_every.
frame_step(curr, contours, dets) ==
  \E g \in {cascade(prev_frame, curr, contours, dets)} :
  /\ _hog_frame_counter < MaxHogCalls
  /\ decision' = [motion |-> detect_motion(prev_frame, curr),
                  score |-> get_motion_score(prev_frame, curr),
                  sig |-> g.sig, person |-> g.hog.ret, should |-> g.should,
                  reason |-> g.reason, boxes |-> g.boxes, trace |-> g.trace,
                  bootstrap |-> (prev_frame = None)]
  /\ _hog_frame_counter' = g.hog.counter
  /\ _last_hog_result' = g.hog.cache
  /\ hogLog' = IF g.hog.counted THEN Append(hogLog, g.hog.ran) ELSE hogLog
  /\ hogAge' = IF g.hog.ran THEN 0
               ELSE IF hogAge = -1 \/ hogAge = _hog_run_every THEN hogAge
               ELSE hogAge + 1
  /\ prev_frame' = curr
  /\ UNCHANGED <<now, configured, _last_analysis_time, analyzerVars, threads,
                 loop, histVars>>
  /\ UNCHANGED outVars

\* Monitoring is started or stopped: the loop forgets its previous frame.
reset_prev_frame ==
  /\ prev_frame # None
  /\ prev_frame' = None
  /\ UNCHANGED <<now, configured, _last_analysis_time, analyzerVars, threads,
                 loop, histVars, hogVars, decision>>
  /\ UNCHANGED outVars

\* analyze_frame(frame) called and run to its return within the second: it
\* returns early when unconfigured or throttled, and marks the throttle when
\* the remote call replied.
analyze_frame_call(raises) ==
  /\ configured
  /\ can_analyze
  /\ Len(issued) < MaxCalls
  /\ issued' = Append(issued, [t |-> now, raised |-> raises])
  /\ _last_analysis_time' = IF raises THEN _last_analysis_time ELSE now
  /\ UNCHANGED <<now, configured, analyzerVars, threads, loop, nsub, gateVars>>
  /\ UNCHANGED outVars

\* The gate alone, within one second of the clock: one frame loop and the
\* analyses that complete meanwhile.
NextGate ==
  \/ \E curr \in Images, contours \in ContourInputs, dets \in HogInputs :
       frame_step(curr, contours, dets)
  \/ reset_prev_frame
  \/ \E raises \in BOOLEAN : analyze_frame_call(raises)
SpecGate == Init /\ [][NextGate]_vars

\* ------------------------------------------- detect_person_hog on its own

\* A call detect_person_hog(frame) by any caller, with a frame or with None;
\* decision records the argument and the returned pair.
detect_person_hog_call(frame, dets) ==
  \E h \in {detect_person_hog(frame, dets)} :
  /\ _hog_frame_counter < MaxHogCalls
  /\ decision' = [should |-> FALSE, trace |-> <<"hog">>, frame |-> frame,
                  person |-> h.ret]
  /\ _hog_frame_counter' = h.counter
  /\ _last_hog_result' = h.cache
  /\ hogLog' = IF h.counted THEN Append(hogLog, h.ran) ELSE hogLog
  /\ hogAge' = IF h.ran THEN 0 ELSE hogAge
  /\ UNCHANGED <<now, configured, _last_analysis_time, analyzerVars, threads,
                 loop, histVars, prev_frame>>
  /\ UNCHANGED outVars

NextHog ==
  \E frame \in Images \cup {None}, dets \in HogInputs :
    detect_person_hog_call(frame, dets)

SpecHog == Init /\ [][NextHog]_vars

\* One BackgroundAnalyzer instance called from both threads.
Next == Step(SharedInstance)
Spec == Init /\ [][Next]_vars

\* The process as deployed: two instances, one frame loop each, one throttle.
NextDeployed == Step(Deployed)
SpecDeployed == Init /\ [][NextDeployed]_vars

\* --------------------------------------------------------------- fairness

\* ------------------------------------------------------------- alerts.py

\* The instants at which alerts are raised and calls return: the start, a
\* second later, and the seconds around one cooldown later.
AlertInstants ==
  {CALL_COOLDOWN, CALL_COOLDOWN + 1} \cup (2 * CALL_COOLDOWN - 1)..MaxAlertTime

\* Time passes, to a later instant.
TickAlerts(t) ==
  /\ t > now
  /\ now' = t
  /\ UNCHANGED <<configured, _last_analysis_time, analyzerVars, threads, loop,
                 histVars>>
  /\ UNCHANGED gateVars
  /\ UNCHANGED <<sinkVars, twilio, _last_call_time, alert, calls, wa_attempts>>

\* make_emergency_voice_call up to client.calls.create: is the call attempted?
voice_call_attempted ==
  /\ twilio.voice
  /\ ~((now - _last_call_time) < CALL_COOLDOWN)

\* send_high_threat_alert(...), called by frame loop p with a high result:
\* send_whatsapp_alert (which returns False when Twilio is not configured, and
\* catches what the send raises), then make_emergency_voice_call as far as its
\* request to Twilio.
send_high_threat_alert(p) ==
  /\ alert[p].pc = "idle"
  /\ wa_attempts[1] < MaxAlerts
  /\ wa_attempts' = <<wa_attempts[1] + 1, wa_attempts[2] + 1>>
  /\ alert' = [alert EXCEPT ![p] = IF voice_call_attempted
                                   THEN [pc |-> "calling", since |-> now]
                                   ELSE IdleAlert]
  /\ UNCHANGED <<now, configured, _last_analysis_time, analyzerVars, threads,
                 loop, histVars>>
  /\ UNCHANGED gateVars
  /\ UNCHANGED <<sinkVars, twilio, _last_call_time, calls>>

\* client.calls.create returns: Twilio placed the call between the request and
\* now (the two ends are taken), and `_last_call_time = time.time()`.
voice_call_returns(p, placed_at) ==
  /\ alert[p].pc = "calling"
  /\ placed_at \in {alert[p].since, now}
  /\ calls' = Append(calls, placed_at)
  /\ _last_call_time' = now
  /\ alert' = [alert EXCEPT ![p] = IdleAlert]
  /\ UNCHANGED <<now, configured, _last_analysis_time, analyzerVars, threads,
                 loop, histVars>>
  /\ UNCHANGED gateVars
  /\ UNCHANGED <<sinkVars, twilio, wa_attempts>>

\* client.calls.create raises: no call, `except Exception` returns False.
voice_call_raises(p) ==
  /\ alert[p].pc = "calling"
  /\ alert' = [alert EXCEPT ![p] = IdleAlert]
  /\ UNCHANGED <<now, configured, _last_analysis_time, analyzerVars, threads,
                 loop, histVars>>
  /\ UNCHANGED gateVars
  /\ UNCHANGED <<sinkVars, twilio, _last_call_time, calls, wa_attempts>>

\* The process at an instant when the first call is allowed, with any Twilio
\* configuration.
InitAlerts ==
  \E tw \in [wa : BOOLEAN, voice : BOOLEAN] : InitWith(CALL_COOLDOWN, tw)

\* Both frame loops raise alerts, as main.py has them do (lines 165 and 491).
NextAlerts ==
  \/ \E t \in AlertInstants : TickAlerts(t)
  \/ \E p \in Producers : send_high_threat_alert(p)
  \/ \E p \in Producers, placed_at \in AlertInstants :
       voice_call_returns(p, placed_at)
  \/ \E p \in Producers : voice_call_raises(p)

SpecAlerts == InitAlerts /\ [][NextAlerts]_vars

\* ------------------------------------- the frame loop's handling of results

\* `bg_b64 or ""`
OrEmpty(b) == IF IsPresent(b) THEN b ELSE [kind |-> "empty"]

\* The frame loop from `bg_result, bg_b64 = analyzer.get_result()` to the end of
\* the `if bg_result and "error" not in bg_result:` block, the same in the local
\* loop and in AegisProcessor.recv: log_event is called with the threat level
\* and the encoding, send_high_threat_alert when the level is high.  log_event
\* and send_high_threat_alert are taken to return.
frame_loop_poll(p) ==
  LET a == loop[p].an
      bg_result == _result[a]
      bg_b64 == IF IsPresent(_result[a]) THEN _frame_b64[a] ELSE None
  IN
  /\ loop[p].pc = "poll"
  /\ IF IsPresent(_result[a])
     THEN /\ _result' = [_result EXCEPT ![a] = None]
          /\ _frame_b64' = [_frame_b64 EXCEPT ![a] = None]
     ELSE UNCHANGED <<_result, _frame_b64>>
  /\ IF Truthy(bg_result) /\ ~HasError(bg_result)
     THEN /\ events_log' = Append(events_log,
                                  [tag |-> bg_result.tag,
                                   level |-> threat_level(bg_result, "low"),
                                   image |-> OrEmpty(bg_b64)])
          /\ alerted' = IF threat_level(bg_result, "") = "high"
                        THEN Append(alerted, bg_result.tag)
                        ELSE alerted
     ELSE UNCHANGED sinkVars
  /\ loop' = [loop EXCEPT ![p].pc = "busy"]
  /\ UNCHANGED <<now, configured, _last_analysis_time, _pending, threads,
                 histVars>>
  /\ UNCHANGED gateVars
  /\ UNCHANGED alertVars

\* The two frame loops as main.py wires them, the remote service replying with
\* any of Replies, at one instant of time.
NextSink ==
  \/ \E p \in Producers, motion \in BOOLEAN, significant \in BOOLEAN :
       GateEval(p, Deployed[p], motion, significant)
  \/ \E p \in Producers : frame_loop_poll(p)
  \/ \E p \in Producers : is_busy(p)
  \/ \E p \in Producers, f \in Frames, m \in BOOLEAN : submit(p, f, m)
  \/ \E p \in Producers : submit_start(p)
  \/ \E t \in threads, raises \in BOOLEAN : run_mock(t, raises)
  \/ \E t \in threads : analyze_frame(t)
  \/ \E t \in threads, text \in Replies : analyze_frame_reply(t, text)
  \/ \E t \in threads : analyze_frame_except(t)
  \/ \E t \in threads : run_store(t)

SpecSink == Init /\ [][NextSink]_vars


\* The steps of the background thread of submission k.  remote is whether the
\* remote service answers: the return or the raise of client.messages.create.
TaskStep(k, remote) ==
  \E t \in threads :
    /\ t.tag = k
    /\ \/ \E raises \in BOOLEAN : run_mock(t, raises)
       \/ analyze_frame(t)
       \/ remote /\ (analyze_frame_reply(t, OkReply) \/ analyze_frame_except(t))
       \/ run_store(t)

\* Every started thread keeps running, a submit() that took the lock goes on to
\* start its thread, and every remote call returns or raises.
SpecLive ==
  /\ Init /\ [][Next]_vars
  /\ \A p \in Producers : WF_vars(submit_start(p))
  /\ \A k \in 1..MaxSubmits : WF_vars(TaskStep(k, TRUE))

\* The same, but the remote service may never answer.
SpecHang ==
  /\ Init /\ [][Next]_vars
  /\ \A p \in Producers : WF_vars(submit_start(p))
  /\ \A k \in 1..MaxSubmits : WF_vars(TaskStep(k, FALSE))

\* ------------------------------------------------------------------- claims

\* The tasks and not-yet-started launches of analyzer a.
Launching(a) == {p \in Producers : loop[p].pc = "encode" /\ loop[p].an = a}

\* No thread with t's submission tag is left after the step: the thread ended.
Ended(t) == \A u \in threads' : u.tag # t.tag

\* C1: per BackgroundAnalyzer instance at most one background analysis task
\* exists at any time, counting a launch that submit() has accepted but whose
\* thread is not started yet.
C1_SingleFlight ==
  \A a \in Analyzers : Cardinality(TasksOf(a)) + Cardinality(Launching(a)) <= 1

\* C1 witness: a task is in flight while another thread has reached submit()
\* on the same instance.
C1_Witness ==
  \E t \in threads, p \in Producers : loop[p].pc = "submit" /\ loop[p].an = t.an

\* C2: a submit() call that finds the analyzer pending changes nothing: no
\* analyzer field, no thread, no remote call, and the frame is kept nowhere;
\* the remote calls never outnumber the accepted submissions.
C2_DroppedSubmitNoOp ==
  [][ /\ \A p \in Producers :
           (loop[p].pc = "submit" /\ _pending[loop[p].an] /\ loop'[p] # loop[p])
             => /\ UNCHANGED <<_pending, _result, _frame_b64>>
                /\ UNCHANGED <<threads, issued, nsub, _last_analysis_time>>
                /\ loop'[p] = IdleLoop
      /\ Len(issued') <= nsub'
      /\ Cardinality(threads') <= nsub' ]_vars

\* C2 witness: while the first task is running with its encoding in place, a
\* second thread that saw the analyzer idle has entered submit() with another
\* frame to be dropped.
C2_Witness ==
  \E t \in threads, p \in Producers :
    /\ loop[p].pc = "submit" /\ loop[p].an = t.an
    /\ _pending[t.an] /\ _frame_b64[t.an] = frame_to_base64(t.frame)

\* A get_result() call of producer p returns in this step.
Polls(p) == loop[p].pc = "poll" /\ loop'[p].pc = "busy"

\* C3 (as claimed): a result stored by a completed task stays in _result until
\* a get_result() call on that instance returns it, and that call empties the
\* slot, so it is returned by exactly one poll.
C3_ExactlyOnceDelivery ==
  [][ \A a \in Analyzers :
        IsPresent(_result[a]) =>
          IF \E p \in Producers : loop[p].an = a /\ Polls(p)
          THEN _result'[a] = None
          ELSE _result'[a] = _result[a] ]_vars

\* C4 (as claimed): a stored result leaves _result only by the poll that
\* returns it; no submit() and no task completion removes or overwrites it.
C4_OnlyPollClears ==
  [][ \A a \in Analyzers :
        IsPresent(_result[a]) =>
          /\ (_pending'[a] /\ ~_pending[a]) => _result'[a] = _result[a]
          /\ (\E t \in TasksOf(a) : Ended(t)) => _result'[a] = _result[a] ]_vars

C6_FailureBecomesResult ==
  [][ /\ \A t \in threads :
           t.pc \in {"run", "wait"} =>
             \E u \in threads' : /\ u.tag = t.tag /\ u.an = t.an
                                 /\ u.pc \in {t.pc, "wait", "store"}
                                 /\ (u.pc = "store" /\ u.via \in {"exception", "mock_exception"})
                                      => u.ret = ErrorDict(t, u.via)
      /\ \A i \in 1..Len(issued) :
           (~issued[i].raised /\ issued'[i].raised) =>
              \E u \in threads' : u.call = i /\ u.pc = "store" /\ u.via = "exception"
      /\ \A t \in threads :
           (t.pc = "store" /\ t.ret.kind = "error" /\ Ended(t)) =>
              (_result'[t.an] = t.ret /\ ~_pending'[t.an]) ]_vars

\* C6 witness: the error of a raised remote call sits in the slot of an idle
\* analyzer, ready for an ordinary poll.
C6_Witness ==
  \E a \in Analyzers :
    /\ ~_pending[a]
    /\ _result[a].kind = "error" /\ _result[a].why = "exception"
    /\ \E i \in 1..Len(issued) : issued[i].raised

\* C7: once a call has been marked at time t = _last_analysis_time,
\* can_analyze() is false before t + THROTTLE_SECONDS and true from then on.
C7_MonotonicThrottle ==
  _last_analysis_time > 0 =>
    /\ (now < _last_analysis_time + THROTTLE_SECONDS) => ~can_analyze
    /\ (now >= _last_analysis_time + THROTTLE_SECONDS) => can_analyze

\* C7 witness: the boundary, exactly THROTTLE_SECONDS after a marked call.
C7_Witness ==
  /\ _last_analysis_time > 0
  /\ now = _last_analysis_time + THROTTLE_SECONDS
  /\ can_analyze

\* C8: _last_analysis_time never decreases, and it changes only in the step in
\* which an issued remote call returns; gate evaluations, throttled skips and
\* unconfigured calls leave it unchanged.
C8_ThrottleMarkedOnlyByCall ==
  [][ /\ _last_analysis_time' >= _last_analysis_time
      /\ (_last_analysis_time' # _last_analysis_time) =>
           /\ _last_analysis_time' = now
           /\ \E t \in threads :
                /\ t.pc = "wait" /\ t.call \in 1..Len(issued)
                /\ \E u \in threads' : u.tag = t.tag /\ u.pc = "store" /\ u.via = "reply" ]_vars

\* C8 witness: a call was marked earlier, and a later task has been skipped as
\* throttled with the mark unchanged at an earlier time.
C8_Witness ==
  /\ _last_analysis_time > 0
  /\ _last_analysis_time < now
  /\ \E t \in threads : t.via = "throttled"

\* C9 (as claimed): once a remote call issued at time t has raised, no further
\* remote call is issued before t + THROTTLE_SECONDS.
C9_FailedCallThrottles ==
  [][ Len(issued') > Len(issued) =>
        \A i \in 1..Len(issued) :
          issued[i].raised => now >= issued[i].t + THROTTLE_SECONDS ]_vars

\* C10 (as claimed): any two remote calls of the process, whatever thread or
\* analyzer instance issued them, are at least THROTTLE_SECONDS apart.
C10_OneCallPerWindow ==
  \A i, j \in 1..Len(issued) :
    (i < j) => issued[j].t - issued[i].t >= THROTTLE_SECONDS

\* ------------------------------------------------------ claims on the gate

\* The latest gate evaluation invoked the stage.
Invoked(d, stage) == \E i \in 1..Len(d.trace) : d.trace[i] = stage

\* The step is a frame-loop iteration on a frame that differs from the
\* previous one (every iteration that passes the motion stage is one).
FrameEvaluated == prev_frame' # None /\ prev_frame' # prev_frame

\* C11: when the motion stage reports no change the gate returns (False,
\* "No motion", []) having invoked the motion stage only, neither the
\* significance filter nor the shape detector, and the HOG call counter and
\* cached pair are as they were before the evaluation.
C11_NoMotionShortCircuit ==
  [][(decision'.trace # <<>> /\ ~decision'.motion) =>
       /\ ~decision'.should
       /\ decision'.reason = "No motion"
       /\ decision'.boxes = <<>>
       /\ decision'.trace = <<"motion">>
       /\ UNCHANGED <<_hog_frame_counter, _last_hog_result, hogLog>>]_vars

\* A no-motion decision on a frame pair, with the detector already in use.
C11_Witness ==
  /\ decision.reason = "No motion" /\ ~decision.bootstrap
  /\ _hog_frame_counter > 0
  /\ _last_hog_result[1]

\* C12: when motion is detected but no contour is significant the gate returns
\* (False, "Motion too small (shadow/noise)", []) having invoked the motion
\* stage and the significance filter only: the shape detector is not invoked
\* (its counter and cache stay) and the throttle is not consulted.
C12_TooSmallShortCircuit ==
  [][(FrameEvaluated /\ decision'.motion /\ Invoked(decision', "contours")
        /\ ~decision'.sig[1]) =>
       /\ ~decision'.should
       /\ decision'.reason = "Motion too small (shadow/noise)"
       /\ decision'.boxes = <<>>
       /\ decision'.trace = <<"motion", "contours">>
       /\ UNCHANGED <<_hog_frame_counter, _last_hog_result, hogLog>>]_vars

\* A too-small decision taken while the throttle is cooling down.
C12_Witness ==
  /\ decision.reason = "Motion too small (shadow/noise)"
  /\ ~can_analyze
  /\ _hog_frame_counter > 0

\* C13: when motion and significance pass but can_analyze() is false the gate
\* returns (False, "Throttled (cooling down)", contour boxes): the boxes are
\* the significance filter's, whatever the shape detector returned.
C13_ThrottledContourBoxes ==
  [][(FrameEvaluated /\ decision'.motion /\ decision'.sig[1] /\ ~can_analyze) =>
       /\ ~decision'.should
       /\ decision'.reason = "Throttled (cooling down)"
       /\ decision'.boxes = decision'.sig[2]]_vars

\* A throttled decision with contour boxes although the shape detector
\* returned a person with boxes of its own.
C13_Witness ==
  /\ decision.reason = "Throttled (cooling down)"
  /\ decision.boxes = <<"c2">>
  /\ decision.person = <<TRUE, <<"p2">>>>

\* C14: every gate evaluation that passes the motion and significance stages
\* invokes the shape detector exactly once, before the throttle is consulted,
\* so the HOG call counter advances by one, on throttled evaluations too.
C14_HogBeforeThrottle ==
  [][(FrameEvaluated /\ decision'.motion /\ decision'.sig[1]) =>
       /\ decision'.trace = <<"motion", "contours", "hog", "throttle">>
       /\ _hog_frame_counter' = _hog_frame_counter + 1
       /\ Len(hogLog') = Len(hogLog) + 1]_vars

\* A throttled evaluation on which the expensive detector ran and refreshed
\* the cache.
C14_Witness ==
  /\ decision.reason = "Throttled (cooling down)"
  /\ Len(hogLog) > 0 /\ hogLog[Len(hogLog)]
  /\ decision.person = _last_hog_result
  /\ _last_hog_result[1]

\* C15: when motion and significance pass and can_analyze() is true the gate
\* returns True; the reason is "Person detected (HOG)" if the shape detector
\* reported a person and "Large movement detected" otherwise; the boxes are
\* the shape detector's if it returned any and the contour boxes otherwise.
C15_AcceptedReasonAndBoxes ==
  [][(FrameEvaluated /\ decision'.motion /\ decision'.sig[1] /\ can_analyze) =>
       /\ decision'.should
       /\ decision'.reason = IF decision'.person[1]
                               THEN "Person detected (HOG)"
                               ELSE "Large movement detected"
       /\ decision'.boxes = IF decision'.person[2] # <<>>
                              THEN decision'.person[2]
                              ELSE decision'.sig[2]]_vars

\* An accepted decision that prefers the shape detector's boxes over non-empty
\* contour boxes.
C15_Witness ==
  /\ decision.should
  /\ decision.reason = "Person detected (HOG)"
  /\ decision.boxes = <<"p2">>
  /\ decision.sig = <<TRUE, <<"c2">>>>

\* C16: in any _hog_run_every (10) consecutive calls of detect_person_hog on
\* non-null frames the expensive detector runs exactly once, and every call on
\* which it does not run returns the cached pair and leaves it unchanged.
C16_OneRunPerTenCalls ==
  [][/\ \A i \in 1..(Len(hogLog') - (_hog_run_every - 1)) :
          Cardinality({j \in i..(i + _hog_run_every - 1) : hogLog'[j]}) = 1
     /\ (Len(hogLog') > Len(hogLog) /\ ~hogLog'[Len(hogLog')]) =>
          /\ decision'.person = _last_hog_result
          /\ _last_hog_result' = _last_hog_result]_vars

\* Twenty calls were made, and the call after a run returned the pair that the
\* run cached.
C16_Witness ==
  /\ Len(hogLog) >= 2 * _hog_run_every
  /\ ~hogLog[Len(hogLog) - 1]
  /\ decision.person = <<TRUE, <<"p2">>>>

\* C17: the pair the shape detector hands to a gate evaluation was computed by
\* the expensive detector, on a frame at most _hog_run_every - 1 (9) frames
\* earlier in the stream.
C17_HogNeverStale ==
  Invoked(decision, "hog") => (hogAge >= 0 /\ hogAge <= _hog_run_every - 1)

\* C18: with the previous frame absent the motion stage returns True, the
\* motion score is 1.0 and the significance stage returns (True, []), whatever
\* the current frame is.
C18_Bootstrap ==
  [][(FrameEvaluated /\ prev_frame = None) =>
       /\ decision'.motion
       /\ decision'.score.num = decision'.score.den
       /\ decision'.sig = <<TRUE, <<>>>>]_vars

\* A bootstrap evaluation after monitoring was restarted, on a frame that is
\* not black.
C18_Witness ==
  /\ decision.bootstrap /\ decision.motion
  /\ decision.score = [num |-> 1, den |-> 1]
  /\ _hog_frame_counter > 1
  /\ prev_frame = Image(2, PIXEL_DIFF_THRESHOLD)

\* ------------------------------------------- claims on the analyzer's slot

\* C19: when get_result() returns a result, the encoded frame it returns with
\* it is the encoding of the frame whose submit() launched the task that
\* produced the result (the most recently accepted submission), not that of a
\* dropped, an earlier or a later submission.
C19_ResultAndFramePaired ==
  [][\A p \in Producers :
       (Polls(p) /\ IsPresent(_result[loop[p].an])) =>
         /\ _frame_b64[loop[p].an] = frame_to_base64(_result[loop[p].an].frame)
         /\ _result[loop[p].an].tag = nsub]_vars

\* A poll is about to return the result of the second accepted submission,
\* whose frame differs from the one a first submission would have left.
C19_Witness ==
  \E p \in Producers :
    /\ loop[p].pc = "poll"
    /\ IsPresent(_result[loop[p].an])
    /\ _result[loop[p].an].tag = 2
    /\ _result[loop[p].an].frame = 2
    /\ _frame_b64[loop[p].an] = frame_to_base64(2)

\* The positions whose step runs inside `with self._lock:`.
InLock == {"poll", "busy", "submit", "store"}

\* The step is taken by a thread that holds the lock of analyzer a.
HoldsLock(a) ==
  \/ \E p \in Producers :
       loop[p].an = a /\ loop[p].pc \in InLock /\ loop'[p] # loop[p]
  \/ \E t \in TasksOf(a) : t.pc \in InLock /\ Ended(t)

\* C20: every write of _pending, _result and _frame_b64 is made by a thread
\* that holds the analyzer's lock.
C20_TripleUnderLock ==
  [][\A a \in Analyzers :
       (\/ _pending'[a] # _pending[a]
        \/ _result'[a] # _result[a]
        \/ _frame_b64'[a] # _frame_b64[a]) => HoldsLock(a)]_vars

\* ------------------------------------ claims on blocking and on completion

\* The next step of producer p inside get_result(), is_busy or submit().
ProducerStep(p) ==
  \/ get_result(p)
  \/ is_busy(p)
  \/ \E f \in Frames, m \in BOOLEAN : submit(p, f, m)
  \/ submit_start(p)

\* C21: a producer inside get_result(), is_busy or submit() can always take its
\* next step, whatever the background task is doing and also while the remote
\* call is in flight: no call of the three waits for the analysis.  (A submit
\* beyond the model's MaxSubmits is outside the bound.)
C21_ProducerNeverBlocks ==
  \A p \in Producers :
    (/\ loop[p].pc \in {"poll", "busy", "submit", "encode"}
     /\ ~(loop[p].pc = "submit" /\ ~_pending[loop[p].an] /\ nsub >= MaxSubmits))
      => ENABLED ProducerStep(p)

\* A producer is about to poll while the remote call of the in-flight task has
\* not returned.
C21_Witness ==
  \E p \in Producers, t \in threads :
    loop[p].pc = "poll" /\ t.an = loop[p].an /\ t.pc = "wait" /\ _pending[t.an]

C23_HungCallFreesSlot ==
  \A a \in Analyzers : []<>(~_pending[a])

\* C28: a get_result() call that finds a result finds its encoding too, empties
\* both _result and _frame_b64 and leaves _pending as it is; one that finds no
\* result changes nothing of the analyzer.
C28_PollFrame ==
  [][\A p \in Producers :
       Polls(p) =>
         IF IsPresent(_result[loop[p].an])
         THEN /\ IsPresent(_frame_b64[loop[p].an])
              /\ _result'[loop[p].an] = None
              /\ _frame_b64'[loop[p].an] = None
              /\ _pending' = _pending
         ELSE UNCHANGED <<_pending, _result, _frame_b64>>]_vars

\* A poll has returned a result: the task is over and both slots are empty.
C28_Witness ==
  \E p \in Producers :
    /\ loop[p].pc = "busy"
    /\ nsub >= 1 /\ threads = {} /\ Launching(loop[p].an) = {}
    /\ ~_pending[loop[p].an]
    /\ _result[loop[p].an] = None /\ _frame_b64[loop[p].an] = None

\* C29: from the start of its thread to its end a task keeps the frame it was
\* submitted with, whatever the frame loops do meanwhile, and the analyzer's
\* encoding is the encoding of that frame for as long as the task lives.
C29_TaskFrameIsSnapshot ==
  [][/\ \A t \in threads, u \in threads' : u.tag = t.tag => u.frame = t.frame
     /\ \A u \in threads' : _frame_b64'[u.an] = frame_to_base64(u.frame)]_vars

\* A task is in flight on frame 2 while its producer has gone on to a later
\* iteration and is in submit() again.
C29_Witness ==
  \E t \in threads, p \in Producers :
    /\ t.frame = 2 /\ t.pc = "store" /\ IsPresent(t.ret)
    /\ loop[p].pc = "submit" /\ loop[p].an = t.an

\* C27: no gate evaluation changes _last_analysis_time, whatever its outcome
\* (no motion, too small, throttled, accepted); it changes only in a step that
\* issues a remote call.
C27_GateLeavesThrottle ==
  [][/\ (decision' # decision \/ prev_frame' # prev_frame \/ hogLog' # hogLog)
          => _last_analysis_time' = _last_analysis_time
     /\ (_last_analysis_time' # _last_analysis_time)
          => (Len(issued') = Len(issued) + 1 /\ UNCHANGED gateVars)]_vars

\* The gate has accepted a frame and the throttle was never marked.
C27_Witness ==
  /\ decision.should /\ decision.reason = "Person detected (HOG)"
  /\ _last_analysis_time = 0 /\ issued = <<>> /\ configured

\* C30: with a previous frame present the motion score is the number of pixels
\* whose grey levels differ by more than 30, over the number of pixels, and
\* motion is reported iff the score is more than 0.05 (20 * num > den); equal
\* frames score 0 without motion.
C30_MotionScore ==
  [][(/\ prev_frame # None /\ prev_frame' # None
      /\ (decision' # decision \/ prev_frame' # prev_frame)) =>
       /\ decision'.score.den = NumPixels
       /\ decision'.score.num =
            Cardinality({i \in 1..NumPixels :
              \/ prev_frame.px[i] - prev_frame'.px[i] > 30
              \/ prev_frame'.px[i] - prev_frame.px[i] > 30})
       /\ decision'.motion <=> (20 * decision'.score.num > decision'.score.den)
       /\ (prev_frame' = prev_frame) =>
            (decision'.score.num = 0 /\ ~decision'.motion)]_vars

\* An evaluation scored exactly 0.05 and reported no motion.
C30_Witness ==
  /\ ~decision.bootstrap /\ decision.trace # <<>>
  /\ 20 * decision.score.num = decision.score.den
  /\ ~decision.motion


\* C24: a reply whose text cannot be parsed as the JSON object, the text between
\* its first "{" and last "}" included, makes analyze_frame return the
\* extracted object or the placeholder (threat_level "medium", description cut
\* from the reply), never an error result.
C24_MalformedNeverError ==
  [][\A t \in threads : t.pc = "wait" =>
       \A u \in threads' :
         (u.tag = t.tag /\ u.pc = "store" /\ u.via = "reply") =>
           /\ u.ret.kind = "result"
           /\ u.ret.why = "placeholder" =>
                /\ threat_level(u.ret, "low") = "medium"
                /\ Len(u.ret.desc) <= DESC_LIMIT]_vars

\* C25: a result the frame loop polls that carries no error is logged once with
\* its encoding and is alerted exactly when its threat level is high; a result
\* that carries an error is neither logged nor alerted.
C25_ResultPersistedOnce ==
  [][\A p \in Producers :
       (loop[p].pc = "poll" /\ loop'[p].pc = "busy"
          /\ IsPresent(_result[loop[p].an])) =>
         LET r == _result[loop[p].an]
             b == _frame_b64[loop[p].an]
         IN IF HasError(r)
            THEN UNCHANGED sinkVars
            ELSE /\ Len(events_log') = Len(events_log) + 1
                 /\ events_log'[Len(events_log')].tag = r.tag
                 /\ events_log'[Len(events_log')].image = b
                 /\ \A i \in 1..Len(events_log) : events_log[i].tag # r.tag
                 /\ IF threat_level(r, "") = "high"
                    THEN alerted' = Append(alerted, r.tag)
                    ELSE alerted' = alerted]_vars


\* C26: two emergency voice calls are never placed less than CALL_COOLDOWN
\* seconds apart; an alert whose voice call is skipped (cooldown, or voice not
\* configured) leaves _last_call_time alone; every alert attempts the WhatsApp
\* message, whatever the voice cooldown.
C26_VoiceCooldown ==
  /\ [](\A i, j \in 1..Len(calls) :
          i < j => calls[j] - calls[i] >= CALL_COOLDOWN)
  /\ [](wa_attempts[2] = wa_attempts[1])
  /\ [][\A p \in Producers :
          (alert[p].pc = "idle" /\ alert'[p].pc = "idle"
             /\ wa_attempts' # wa_attempts) =>
            _last_call_time' = _last_call_time]_vars

\* C31: until a remote call has been issued can_analyze() is true, and the
\* first task that reaches analyze_frame's throttle check with a configured key
\* passes it.
C31_FirstCallNotThrottled ==
  /\ [](issued = <<>> => can_analyze)
  /\ [][\A t \in threads :
          (t.pc = "run" /\ ~t.mock /\ configured /\ issued = <<>>) =>
            \A u \in threads' : u.tag = t.tag => u.via # "throttled"]_vars

\* The first call was issued, unthrottled, before anything marked the throttle.
C31_Witness ==
  /\ Len(issued) = 1 /\ _last_analysis_time = 0
  /\ \E t \in threads : t.pc = "wait" /\ t.call = 1

C33_AcceptedFrameIsCalled ==
  [][\A t \in threads :
       (t.pc = "run" /\ ~t.mock /\ configured /\ t \notin threads') =>
         \E u \in threads' :
           u.tag = t.tag /\ u.pc = "wait" /\ u.via # "throttled"]_vars

\* C34: whenever _pending is True, _result is None: an undelivered result and
\* a task in flight never coexist.
C34_PendingHasNoResult ==
  \A a \in Analyzers : _pending[a] => _result[a] = None

\* A second submission is pending, its task about to store a present result.
C34_Witness ==
  \E a \in Analyzers :
    /\ _pending[a] /\ _result[a] = None /\ nsub = 2
    /\ \E t \in TasksOf(a) : t.pc = "store" /\ IsPresent(t.ret)

\* C35: _pending is True only while a submit() call is still executing or a
\* launched task has not completed, also when encoding or thread creation
\* fails inside submit() after _pending was set.
C35_PendingHasOwner ==
  \A a \in Analyzers :
    _pending[a] =>
      \/ \E p \in Producers : loop[p].an = a /\ loop[p].pc = "encode"
      \/ TasksOf(a) # {}

\* C36: the mock analysis never changes the throttle's last-accepted time; when
\* every task is a mock one the throttle check is always passed, so the gate
\* accepts every frame with significant motion and a submit() on an idle
\* analyzer is always launched.
C36_MockNeverThrottles ==
  /\ [][_last_analysis_time' = _last_analysis_time]_vars
  /\ [](can_analyze /\ should_call_claude(TRUE, TRUE))
  /\ [][\A p \in Producers :
          (loop[p].pc = "submit" /\ ~_pending[loop[p].an]
             /\ loop'[p] # loop[p]) => _pending'[loop[p].an]]_vars

\* A second mock analysis was launched in the same second as the first, the
\* throttle still open.
C36_Witness ==
  /\ nsub = 2 /\ now = THROTTLE_SECONDS /\ can_analyze
  /\ \E t \in threads : t.tag = 2 /\ t.pc = "store" /\ t.via = "mock"

\* C37: the cached pair of the shape detector always has found = (boxes is
\* non-empty) and holds only boxes the detector reported with a confidence
\* above 0.3; an accepted decision has the reason "Person detected (HOG)"
\* exactly when its boxes are the non-empty boxes of the shape detector, and
\* the contour boxes otherwise.
C37_HogCacheConsistent ==
  /\ _last_hog_result[1] = (_last_hog_result[2] # <<>>)
  /\ \A i \in 1..Len(_last_hog_result[2]) :
       \E dets \in HogInputs : \E k \in 1..Len(dets) :
         /\ dets[k].box = _last_hog_result[2][i]
         /\ dets[k].weight > HOG_MIN_WEIGHT
  /\ decision.should =>
       /\ (decision.reason = "Person detected (HOG)") <=>
            (decision.person[2] # <<>> /\ decision.boxes = decision.person[2])
       /\ (decision.reason # "Person detected (HOG)") =>
            decision.boxes = decision.sig[2]

\* The detector has cached a confident box and the accepted decision carries
\* it with the reason "Person detected (HOG)".
C37_Witness ==
  /\ _last_hog_result = <<TRUE, <<"p2">>>>
  /\ decision.should /\ decision.reason = "Person detected (HOG)"
  /\ decision.boxes = <<"p2">>

\* C38: detect_person_hog called with a null frame returns (False, []) and
\* leaves the call counter and the cached pair as they were.
C38_NullFrameNotCounted ==
  [][(decision'.trace = <<"hog">> /\ decision'.frame = None) =>
       /\ decision'.person = <<FALSE, <<>>>>
       /\ _hog_frame_counter' = _hog_frame_counter
       /\ _last_hog_result' = _last_hog_result
       /\ hogLog' = hogLog]_vars

\* A null frame was passed when the cache held a detection and the next call
\* was the one to run the detector: (False, []) came back and both globals are
\* as before.
C38_Witness ==
  /\ decision.trace = <<"hog">> /\ decision.frame = None
  /\ decision.person = <<FALSE, <<>>>>
  /\ _last_hog_result = <<TRUE, <<"p2">>>>
  /\ _hog_frame_counter = 2 * _hog_run_every - 1

====
